---- MODULE Spec2Model ----
(***************************************************************************)
(* Model of docling-service/main.py: the CSV table formatter, the upload   *)
(* gate, the dispatch rule, the Docling adapters with their temporary      *)
(* files, and the /parse request handler.                                  *)
(*                                                                         *)
(* Python strings are modelled as sequences of one-character strings, so   *)
(* that lower(), endswith(), `in`, split(), strip() and join() are         *)
(* computed character by character as the interpreter does.                *)
(***************************************************************************)
EXTENDS Integers, Sequences, FiniteSets, TLC

VARIABLES
    \* ---- parse_csv_to_markdown (one call, step by step)
    csv_content,        \* the argument csv_content
    csv_pc,             \* position in the function
    lines,              \* line 78
    rows,               \* line 99
    csv_result,         \* the returned markdown
    \* ---- module level state
    main_pc,            \* position of the module-level code
    DOCLING_AVAILABLE,  \* lines 24, 27, 34, 71
    converter,          \* lines 57, 61, 70
    \* ---- the temporary directory
    fs,                 \* names of the temporary files that exist
    \* ---- the requests
    req                 \* per request: position and locals of parse_document
                        \* and of the adapter it calls, and its response

csvVars == <<csv_content, csv_pc, lines, rows, csv_result>>
mainVars == <<main_pc, DOCLING_AVAILABLE, converter>>
vars == <<csv_content, csv_pc, lines, rows, csv_result,
          main_pc, DOCLING_AVAILABLE, converter, fs, req>>

(***************************************************************************)
(* Python str operations                                                   *)
(***************************************************************************)
Whitespace == {" ", "\t", "\n", "\r"}

UpperChars == <<"A","B","C","D","E","F","G","H","I","J","K","L","M",
                "N","O","P","Q","R","S","T","U","V","W","X","Y","Z">>
LowerChars == <<"a","b","c","d","e","f","g","h","i","j","k","l","m",
                "n","o","p","q","r","s","t","u","v","w","x","y","z">>

LowerChar(c) ==
    IF \E i \in 1..Len(UpperChars) : UpperChars[i] = c
    THEN LowerChars[CHOOSE i \in 1..Len(UpperChars) : UpperChars[i] = c]
    ELSE c

\* str.lower()
lower(s) == [i \in 1..Len(s) |-> LowerChar(s[i])]

\* str.endswith(suffix)
endswith(s, suffix) ==
    /\ Len(suffix) <= Len(s)
    /\ SubSeq(s, Len(s) - Len(suffix) + 1, Len(s)) = suffix

\* sub in s
contains(sub, s) ==
    \E i \in 1..(Len(s) - Len(sub) + 1) : SubSeq(s, i, i + Len(sub) - 1) = sub

RECURSIVE lstrip(_)
lstrip(s) ==
    IF s # <<>> /\ Head(s) \in Whitespace THEN lstrip(Tail(s)) ELSE s

RECURSIVE rstrip(_)
rstrip(s) ==
    IF s # <<>> /\ s[Len(s)] \in Whitespace
    THEN rstrip(SubSeq(s, 1, Len(s) - 1)) ELSE s

\* str.strip()
strip(s) == rstrip(lstrip(s))

\* str.split(sep) for a one-character separator: always at least one piece
RECURSIVE split(_, _)
split(s, sep) ==
    IF \E i \in 1..Len(s) : s[i] = sep
    THEN LET i == CHOOSE k \in 1..Len(s) :
                      s[k] = sep /\ \A j \in 1..(k - 1) : s[j] # sep
         IN  <<SubSeq(s, 1, i - 1)>> \o split(SubSeq(s, i + 1, Len(s)), sep)
    ELSE <<s>>

\* sep.join(parts)
RECURSIVE join(_, _)
join(sep, parts) ==
    IF parts = <<>> THEN <<>>
    ELSE IF Len(parts) = 1 THEN parts[1]
    ELSE parts[1] \o sep \o join(sep, Tail(parts))

RECURSIVE concat(_)
concat(parts) ==
    IF parts = <<>> THEN <<>> ELSE Head(parts) \o concat(Tail(parts))

(***************************************************************************)
(* parse_csv_to_markdown, lines 76-112                                     *)
(***************************************************************************)
Heading == <<"#","#"," ","D","o","c","u","m","e","n","t"," ","D","a","t","a",
             "\n","\n">>
Dashes == <<"-","-","-">>

\* line 78: the stripped lines that are not blank
StrippedLines(text) ==
    LET raw == split(text, "\n")
        kept == SelectSeq(raw, LAMBDA l : strip(l) # <<>>)
    IN  [i \in 1..Len(kept) |-> strip(kept[i])]

\* faulty variant: a comma ends the cell inside quotes too
RECURSIVE ScanQuoteBlind(_, _)
ScanQuoteBlind(line, n) ==
    IF n = 0 THEN [result |-> <<>>, current |-> <<>>, in_quotes |-> FALSE]
    ELSE LET st == ScanQuoteBlind(line, n - 1)
             char == line[n]
         IN  IF char = "\""
             THEN [st EXCEPT !.in_quotes = ~st.in_quotes]
             ELSE IF char = ","
             THEN [st EXCEPT !.result = Append(st.result, strip(st.current)),
                             !.current = <<>>]
             ELSE [st EXCEPT !.current = Append(st.current, char)]

\* lines 88-95: the scanner's state after the first n characters of the line
RECURSIVE Scan(_, _)
Scan(line, n) ==
    IF n = 0 THEN [result |-> <<>>, current |-> <<>>, in_quotes |-> FALSE]
    ELSE LET st == Scan(line, n - 1)
             char == line[n]
         IN  IF char = "\""
             THEN [st EXCEPT !.in_quotes = ~st.in_quotes]
             ELSE IF char = "," /\ ~st.in_quotes
             THEN [st EXCEPT !.result = Append(st.result, strip(st.current)),
                             !.current = <<>>]
             ELSE [st EXCEPT !.current = Append(st.current, char)]

\* lines 83-97
parse_csv_line(line) ==
    LET st == Scan(line, Len(line))
    IN  Append(st.result, strip(st.current))

\* '| ' + ' | '.join(cells) + ' |\n', lines 105 and 110
TableRow(cells) == <<"|", " ">> \o join(<<" ", "|", " ">>, cells) \o <<" ", "|", "\n">>

\* line 106
SeparatorRow(headers) ==
    <<"|">> \o join(<<"|">>, [i \in 1..Len(headers) |-> Dashes]) \o <<"|", "\n">>

\* faulty variant: shorter rows are written too
KeepRowAtMost(row, headers) == Len(row) <= Len(headers)

\* line 109: the rows after the header that are written to the table
KeepRow(row, headers) == Len(row) = Len(headers)

\* lines 103-112
RenderTable(rs) ==
    LET headers == rs[1]
        body == SelectSeq(Tail(rs), LAMBDA row : KeepRow(row, headers))
    IN  Heading \o TableRow(headers) \o SeparatorRow(headers)
        \o concat([i \in 1..Len(body) |-> TableRow(body[i])])

\* the whole function, as the request handler calls it (line 273)
parse_csv_to_markdown(text) ==
    LET ls == StrippedLines(text)
    IN  IF ls = <<>> THEN <<>>
        ELSE RenderTable([i \in 1..Len(ls) |-> parse_csv_line(ls[i])])

(***************************************************************************)
(* One call of parse_csv_to_markdown, step by step                         *)
(***************************************************************************)
MaxCsvLen == 5
CsvAlphabet == {"a", "b", ",", "\"", " ", "\n"}
CsvInputs == UNION {[1..n -> CsvAlphabet] : n \in 0..MaxCsvLen}

\* line 78
SplitLines ==
    /\ csv_pc = "start"
    /\ lines' = StrippedLines(csv_content)
    /\ csv_pc' = "lines"
    /\ UNCHANGED <<csv_content, rows, csv_result, mainVars, fs, req>>

\* lines 79-80
ReturnEmpty ==
    /\ csv_pc = "lines"
    /\ lines = <<>>
    /\ csv_result' = <<>>
    /\ csv_pc' = "done"
    /\ UNCHANGED <<csv_content, lines, rows, mainVars, fs, req>>

\* line 99 (rows is never empty here, so lines 100-101 never return)
ParseRows ==
    /\ csv_pc = "lines"
    /\ lines # <<>>
    /\ rows' = [i \in 1..Len(lines) |-> parse_csv_line(lines[i])]
    /\ csv_pc' = "rows"
    /\ UNCHANGED <<csv_content, lines, csv_result, mainVars, fs, req>>

\* lines 103-112
EmitTable ==
    /\ csv_pc = "rows"
    /\ csv_result' = RenderTable(rows)
    /\ csv_pc' = "done"
    /\ UNCHANGED <<csv_content, lines, rows, mainVars, fs, req>>

(***************************************************************************)
(* Module-level state, lines 21-73                                         *)
(***************************************************************************)
\* lines 59-73: the converter is built once, when the import succeeded
InitConverter ==
    /\ main_pc = "init_converter"
    /\ \/ /\ DOCLING_AVAILABLE
          /\ converter' = "DocumentConverter"
          /\ UNCHANGED DOCLING_AVAILABLE
       \/ /\ DOCLING_AVAILABLE          \* DocumentConverter(...) raised
          /\ converter' = "None"
          /\ DOCLING_AVAILABLE' = FALSE
       \/ /\ ~DOCLING_AVAILABLE
          /\ UNCHANGED <<converter, DOCLING_AVAILABLE>>
    /\ main_pc' = "serving"
    /\ UNCHANGED <<csvVars, fs, req>>

(***************************************************************************)
(* Responses                                                               *)
(***************************************************************************)
NoResponse ==
    [status |-> 0, detail |-> "none", markdown |-> <<>>, fileName |-> <<>>,
     fileType |-> <<>>, fileSize |-> 0]

\* raise HTTPException(status_code=..., detail=...)
HTTPException(status_code, detail) ==
    [status |-> status_code, detail |-> detail, markdown |-> <<>>,
     fileName |-> <<>>, fileType |-> <<>>, fileSize |-> 0]

\* lines 292-300
JSONResponse(md, fname, ftype, size) ==
    [status |-> 200, detail |-> "success", markdown |-> md, fileName |-> fname,
     fileType |-> ftype, fileSize |-> size]

(***************************************************************************)
(* The upload gate, lines 237-267                                          *)
(***************************************************************************)
MAX_FILE_SIZE == 10 * 1024 * 1024

\* faulty variant: the limit itself is refused
TooLargeInclusive(size) == size >= MAX_FILE_SIZE

\* line 249
TooLarge(size) == size > MAX_FILE_SIZE

\* line 257
valid_extensions == {<<".","p","d","f">>, <<".","c","s","v">>, <<".","p","n","g">>, <<".","j","p","g">>, <<".","j","p","e","g">>}
\* line 258
valid_types == {<<"a","p","p","l","i","c","a","t","i","o","n","/","p","d","f">>, <<"t","e","x","t","/","c","s","v">>, <<"i","m","a","g","e","/","p","n","g">>,
                <<"i","m","a","g","e","/","j","p","e","g">>, <<"i","m","a","g","e","/","j","p","g">>}

\* line 260
has_valid_extension(fname) ==
    \E ext \in valid_extensions : endswith(lower(fname), ext)
\* line 261
has_valid_type(ctype) == lower(ctype) \in valid_types

\* faulty variant: name and declared type must both be supported
TypeRejectedEither(fname, ctype) ==
    ~has_valid_extension(fname) \/ ~has_valid_type(ctype)

\* line 263
TypeRejected(fname, ctype) ==
    ~has_valid_extension(fname) /\ ~has_valid_type(ctype)

\* faulty variant: the type is checked before the size
GateVerdictTypeFirst(size, fname, ctype) ==
    IF ~has_valid_extension(fname) /\ ~has_valid_type(ctype) THEN "unsupported"
    ELSE IF size > MAX_FILE_SIZE THEN "too_large"
    ELSE "ok"

\* lines 249-267, in the order of the code
GateVerdict(size, fname, ctype) ==
    IF TooLarge(size) THEN "too_large"
    ELSE IF TypeRejected(fname, ctype) THEN "unsupported"
    ELSE "ok"

(***************************************************************************)
(* Dispatch, lines 270-290                                                 *)
(***************************************************************************)
\* line 270
IsCsv(fname, ctype) ==
    endswith(lower(fname), <<".","c","s","v">>) \/ contains(<<"c","s","v">>, lower(ctype))
\* line 276
IsPdf(fname, ctype) ==
    endswith(lower(fname), <<".","p","d","f">>) \/ contains(<<"p","d","f">>, lower(ctype))
\* faulty variant: the image branch forgets the .jpeg extension
IsImageNoJpeg(fname, ctype) ==
    \/ \E ext \in {<<".","p","n","g">>, <<".","j","p","g">>} : endswith(lower(fname), ext)
    \/ lower(ctype) \in {<<"i","m","a","g","e","/","p","n","g">>, <<"i","m","a","g","e","/","j","p","e","g">>, <<"i","m","a","g","e","/","j","p","g">>}

\* line 281
IsImage(fname, ctype) ==
    \/ \E ext \in {<<".","p","n","g">>, <<".","j","p","g">>, <<".","j","p","e","g">>} : endswith(lower(fname), ext)
    \/ lower(ctype) \in {<<"i","m","a","g","e","/","p","n","g">>, <<"i","m","a","g","e","/","j","p","e","g">>, <<"i","m","a","g","e","/","j","p","g">>}

\* faulty variant: the PDF test comes before the CSV test
DispatchPdfFirst(fname, ctype) ==
    IF IsPdf(fname, ctype) THEN "pdf"
    ELSE IF IsCsv(fname, ctype) THEN "csv"
    ELSE IF IsImage(fname, ctype) THEN "image"
    ELSE "unsupported"

\* the if / elif / elif / else chain of lines 270-290
DispatchBranch(fname, ctype) ==
    IF IsCsv(fname, ctype) THEN "csv"
    ELSE IF IsPdf(fname, ctype) THEN "pdf"
    ELSE IF IsImage(fname, ctype) THEN "image"
    ELSE "unsupported"

\* lines 274, 279, 284 (content_type or 'image')
FileTypeOf(branch, ctype) ==
    IF branch = "csv" THEN <<"t","e","x","t","/","c","s","v">>
    ELSE IF branch = "pdf" THEN <<"a","p","p","l","i","c","a","t","i","o","n","/","p","d","f">>
    ELSE IF ctype # <<>> THEN ctype ELSE <<"i","m","a","g","e">>

(***************************************************************************)
(* The Docling adapters, lines 115-201                                     *)
(***************************************************************************)
\* faulty variant: the adapter does not look at the availability state
UnavailableUnchecked(available, conv) == FALSE

\* lines 117 and 160
Unavailable(available, conv) == ~available \/ conv = "None"

\* lines 118-121 and 162-165
UnavailableDetail(kind) ==
    IF kind = "pdf" THEN "Docling is not available"
    ELSE "Image parsing is currently unavailable"

\* lines 152-155 and 198-201
FailedDetail(kind) ==
    IF kind = "pdf" THEN "Failed to parse PDF" ELSE "Failed to parse image"

\* lines 144 and 190: markdown if markdown else f"## ... {filename} ..."
Placeholder(kind, fname) ==
    IF kind = "pdf"
    THEN <<"#","#"," ","P","D","F"," ","D","o","c","u","m","e","n","t",":"," ">> \o fname
         \o <<"\n","\n","*","N","o"," ","t","e","x","t"," ","e","x","t","r","a","c","t","e","d"," ","f","r","o","m"," ","P","D","F",".","*">>
    ELSE <<"#","#"," ","I","m","a","g","e"," ","D","o","c","u","m","e","n","t",":"," ">> \o fname
         \o <<"\n","\n","*","N","o"," ","t","e","x","t"," ","e","x","t","r","a","c","t","e","d"," ","f","r","o","m"," ","i","m","a","g","e",".","*">>

MarkdownOrPlaceholder(md, kind, fname) ==
    IF md # <<>> THEN md ELSE Placeholder(kind, fname)

\* what converter.convert(tmp_path) can return: a result with a document,
\* a result with a markdown attribute, or anything else (lines 136-142),
\* each carrying an empty or a non-empty text
NoResult == [shape |-> "none", text |-> <<>>]
ConvertResults ==
    {[shape |-> s, text |-> t] :
        s \in {"document", "markdown", "other"}, t \in {<<>>, <<"#"," ","T">>}}

\* line 132 / 180: the call raises, or returns; on None it can only raise
ConvertOutcomes(conv) ==
    IF conv = "None" THEN {NoResult} ELSE {NoResult} \union ConvertResults

\* faulty variant: the cleanup empties the temporary directory
UnlinkAll(files, path) == {}

\* lines 147-148 and 193-194
Unlink(files, path) == files \ {path}

\* tempfile.NamedTemporaryFile: a name no existing file has
TmpNames == {"tmp1", "tmp2", "tmp3"}
FreshNames(files) == TmpNames \ files

(***************************************************************************)
(* Requests                                                                *)
(***************************************************************************)
Reqs == {"r1", "r2"}

\* The bytes of an upload are its text followed by (size - Len(text))
\* line feeds; utf8 = FALSE stands for bytes that are not valid UTF-8.
NoUpload ==
    [filename |-> <<>>, content_type |-> <<>>,
     content |-> [size |-> 0, text |-> <<>>, utf8 |-> TRUE]]

IdleReq ==
    [pc |-> "idle", upload |-> NoUpload, filename |-> <<>>,
     content_type |-> <<>>, file_size |-> 0, kind |-> "none",
     markdown |-> <<>>, file_type |-> <<>>, tmp_file |-> "none",
     tmp_path |-> "unbound", result |-> NoResult, pending |-> "none",
     response |-> NoResponse, log |-> <<>>]

\* file names and declared content types of the uploads ("" is also None)
FileNames ==
    {<<>>, <<"x",".","c","s","v">>, <<"X",".","C","S","V">>, <<"d",".","p","d","f">>, <<"s","c","a","n",".","p","n","g">>, <<"p",".","j","p","g">>,
     <<"p",".","J","P","E","G">>, <<"r","e","p","o","r","t",".","t","x","t">>}
ContentTypes ==
    {<<>>, <<"t","e","x","t","/","c","s","v">>, <<"a","p","p","l","i","c","a","t","i","o","n","/","p","d","f">>, <<"i","m","a","g","e","/","p","n","g">>, <<"i","m","a","g","e","/","j","p","e","g">>,
     <<"i","m","a","g","e","/","j","p","g">>, <<"t","e","x","t","/","p","l","a","i","n">>, <<"I","m","a","g","e","/","P","N","G">>, <<"a","p","p","l","i","c","a","t","i","o","n","/","c","s","v">>}
SampleCsv == <<"a",",","b","\n","1",",","2","\n","3",",","4",",","5","\n","6",",","7">>
Texts == {<<>>, SampleCsv}
Contents ==
    {[size |-> n, text |-> t, utf8 |-> u] :
        n \in {0, Len(SampleCsv), MAX_FILE_SIZE, MAX_FILE_SIZE + 1},
        t \in Texts, u \in BOOLEAN}
Uploads ==
    {[filename |-> f, content_type |-> c, content |-> b] :
        f \in FileNames, c \in ContentTypes,
        b \in {x \in Contents : x.size >= Len(x.text) /\ (x.utf8 \/ x.text = <<>>)}}

\* the request's locals changed and its response set and sent
Respond(r, resp) ==
    [req[r] EXCEPT !.pc = "responded", !.response = resp]

\* lines 241-246
Receive(r, files) ==
    /\ main_pc = "serving"
    /\ req[r].pc = "idle"
    /\ \E f \in files :
        req' = [req EXCEPT ![r] =
            [@ EXCEPT !.pc = "validate",
                      !.upload = f,
                      !.filename = IF f.filename # <<>> THEN f.filename
                                   ELSE <<"d","o","c","u","m","e","n","t">>,
                      !.content_type = f.content_type,
                      !.file_size = f.content.size,
                      !.log = <<"read">>]]
    /\ UNCHANGED <<csvVars, mainVars, fs>>

\* lines 249-267
Validate(r) ==
    /\ req[r].pc = "validate"
    /\ LET v == GateVerdict(req[r].file_size, req[r].filename, req[r].content_type)
       IN  req' = [req EXCEPT ![r] =
             IF v = "too_large"
             THEN Respond(r, HTTPException(400, "File size exceeds 10MB limit"))
             ELSE IF v = "unsupported"
             THEN Respond(r, HTTPException(400,
                                "Only PNG, JPG, CSV, and PDF files are allowed"))
             ELSE [@ EXCEPT !.pc = "dispatch", !.log = Append(@, "validated")]]
    /\ UNCHANGED <<csvVars, mainVars, fs>>

\* lines 270-290
Dispatch(r) ==
    /\ req[r].pc = "dispatch"
    /\ LET b == DispatchBranch(req[r].filename, req[r].content_type)
       IN  req' = [req EXCEPT ![r] =
             IF b = "unsupported"
             THEN Respond(r, HTTPException(400, "Unsupported file type"))
             ELSE [@ EXCEPT !.pc = IF b = "csv" THEN "csv" ELSE "adapter_check",
                            !.kind = b,
                            !.log = Append(@, b)]]
    /\ UNCHANGED <<csvVars, mainVars, fs>>

\* lines 272-274, and lines 304-309 when decode raises
ParseCsv(r) ==
    /\ req[r].pc = "csv"
    /\ req' = [req EXCEPT ![r] =
         IF req[r].upload.content.utf8
         THEN [@ EXCEPT !.pc = "respond",
                        !.markdown = parse_csv_to_markdown(req[r].upload.content.text),
                        !.file_type = FileTypeOf("csv", req[r].content_type),
                        !.log = @ \o <<"decode", "csv_format">>]
         ELSE [Respond(r, HTTPException(500, "Failed to parse document"))
                 EXCEPT !.log = Append(@, "decode")]]
    /\ UNCHANGED <<csvVars, mainVars, fs>>

\* lines 117-121 and 160-165
AdapterCheck(r) ==
    /\ req[r].pc = "adapter_check"
    /\ req' = [req EXCEPT ![r] =
         IF Unavailable(DOCLING_AVAILABLE, converter)
         THEN [Respond(r, HTTPException(503, UnavailableDetail(req[r].kind)))
                 EXCEPT !.log = Append(@, "adapter")]
         ELSE [@ EXCEPT !.pc = "tmp_create", !.log = Append(@, "adapter")]]
    /\ UNCHANGED <<csvVars, mainVars, fs>>

\* lines 126 and 174: the file is created under a fresh name, or the call raises
CreateTemp(r) ==
    /\ req[r].pc = "tmp_create"
    /\ \/ \E name \in FreshNames(fs) :
            /\ fs' = fs \union {name}
            /\ req' = [req EXCEPT ![r] =
                 [@ EXCEPT !.pc = "tmp_write", !.tmp_file = name,
                           !.log = Append(@, "tmp_create")]]
       \/ /\ req' = [req EXCEPT ![r] =
                 [@ EXCEPT !.pc = "except", !.pending = "OSError"]]
          /\ UNCHANGED fs
    /\ UNCHANGED <<csvVars, mainVars>>

\* lines 127-128 and 175-176: the bytes are written and the file closed, then
\* tmp_path is bound; or write (or the closing flush) raises, the with block
\* closes the file, which delete=False keeps, and control leaves the outer try
WriteTemp(r) ==
    /\ req[r].pc = "tmp_write"
    /\ \/ req' = [req EXCEPT ![r] =
                 [@ EXCEPT !.pc = "convert", !.tmp_path = req[r].tmp_file,
                           !.log = Append(@, "tmp_write")]]
       \/ req' = [req EXCEPT ![r] =
                 [@ EXCEPT !.pc = "except", !.pending = "OSError"]]
    /\ UNCHANGED <<csvVars, mainVars, fs>>

\* lines 132 and 180
Convert(r) ==
    /\ req[r].pc = "convert"
    /\ \E res \in ConvertOutcomes(converter) :
         req' = [req EXCEPT ![r] =
           IF res = NoResult
           THEN [@ EXCEPT !.pc = "finally", !.pending = "ConversionError",
                          !.log = Append(@, "convert")]
           ELSE [@ EXCEPT !.pc = "extract", !.result = res,
                          !.log = Append(@, "convert")]]
    /\ UNCHANGED <<csvVars, mainVars, fs>>

\* lines 136-144 and 183-190: export_to_markdown() may raise
Extract(r) ==
    /\ req[r].pc = "extract"
    /\ \/ req' = [req EXCEPT ![r] =
                 [@ EXCEPT !.pc = "finally",
                           !.markdown = MarkdownOrPlaceholder(req[r].result.text,
                                                              req[r].kind, req[r].filename),
                           !.log = Append(@, "extract")]]
       \/ /\ req[r].result.shape = "document"
          /\ req' = [req EXCEPT ![r] =
                 [@ EXCEPT !.pc = "finally", !.pending = "ExportError",
                           !.log = Append(@, "extract")]]
    /\ UNCHANGED <<csvVars, mainVars, fs>>

\* lines 145-148 and 191-194, then the return or the exception goes on
Finally(r) ==
    /\ req[r].pc = "finally"
    /\ fs' = Unlink(fs, req[r].tmp_path)
    /\ req' = [req EXCEPT ![r] =
         [@ EXCEPT !.pc = IF req[r].pending = "none" THEN "respond" ELSE "except",
                   !.file_type = IF req[r].pending = "none"
                                 THEN FileTypeOf(req[r].kind, req[r].content_type)
                                 ELSE @,
                   !.log = Append(@, "unlink")]]
    /\ UNCHANGED <<csvVars, mainVars>>

\* lines 150-155 and 196-201, re-raised by lines 302-303
Except(r) ==
    /\ req[r].pc = "except"
    /\ req' = [req EXCEPT ![r] =
         Respond(r, HTTPException(500, FailedDetail(req[r].kind)))]
    /\ UNCHANGED <<csvVars, mainVars, fs>>

\* lines 292-300
ReturnResponse(r) ==
    /\ req[r].pc = "respond"
    /\ req' = [req EXCEPT ![r] =
         Respond(r, JSONResponse(req[r].markdown, req[r].filename,
                                 req[r].file_type, req[r].file_size))]
    /\ UNCHANGED <<csvVars, mainVars, fs>>

Handle(r) ==
    \/ Validate(r)
    \/ Dispatch(r)
    \/ ParseCsv(r)
    \/ AdapterCheck(r)
    \/ CreateTemp(r)
    \/ WriteTemp(r)
    \/ Convert(r)
    \/ Extract(r)
    \/ Finally(r)
    \/ Except(r)
    \/ ReturnResponse(r)

(***************************************************************************)
(* Specifications                                                          *)
(***************************************************************************)
\* the state at line 57: the import of lines 21-39 succeeded or failed
InitService ==
    /\ main_pc = "init_converter"
    /\ DOCLING_AVAILABLE \in BOOLEAN
    /\ converter = "None"
    /\ fs = {}
    /\ req = [r \in Reqs |-> IdleReq]

NoCsvCall ==
    /\ csv_content = <<>>
    /\ csv_pc = "idle"
    /\ lines = <<>>
    /\ rows = <<>>
    /\ csv_result = <<>>

\* one request, any upload
Init == InitService /\ NoCsvCall
Next ==
    \/ InitConverter
    \/ Receive("r1", Uploads)
    \/ Handle("r1")
Spec == Init /\ [][Next]_vars

\* requests in flight together
ConcUploads ==
    {u \in Uploads :
        /\ u.filename \in {<<"x",".","c","s","v">>, <<"d",".","p","d","f">>, <<"s","c","a","n",".","p","n","g">>, <<"r","e","p","o","r","t",".","t","x","t">>}
        /\ u.content_type \in {<<>>, <<"a","p","p","l","i","c","a","t","i","o","n","/","p","d","f">>}
        /\ u.content.size \in {Len(SampleCsv), MAX_FILE_SIZE + 1}
        /\ u.content.text = SampleCsv}
NextConc ==
    \/ InitConverter
    \/ \E r \in Reqs : Receive(r, ConcUploads) \/ Handle(r)
SpecConc == Init /\ [][NextConc]_vars

\* one call of parse_csv_to_markdown on any text of the bounded alphabet
InitCsv ==
    /\ csv_content \in CsvInputs
    /\ csv_pc = "start"
    /\ lines = <<>>
    /\ rows = <<>>
    /\ csv_result = <<>>
    /\ main_pc = "serving"
    /\ DOCLING_AVAILABLE = FALSE
    /\ converter = "None"
    /\ fs = {}
    /\ req = [r \in Reqs |-> IdleReq]
NextCsv ==
    \/ SplitLines
    \/ ReturnEmpty
    \/ ParseRows
    \/ EmitTable
SpecCsv == InitCsv /\ [][NextCsv]_vars

(***************************************************************************)
(* Properties of the request handler                                       *)
(***************************************************************************)
InLog(r, e) == \E i \in 1..Len(req[r].log) : req[r].log[i] = e

\* the two admission tests as section 4.2 of the specification words them
NamedLikeSupported(fname) ==
    \E ext \in {<<".","p","d","f">>, <<".","c","s","v">>, <<".","p","n","g">>, <<".","j","p","g">>, <<".","j","p","e","g">>} :
        endswith(lower(fname), ext)
DeclaredSupported(ctype) ==
    lower(ctype) \in {<<"a","p","p","l","i","c","a","t","i","o","n","/","p","d","f">>, <<"t","e","x","t","/","c","s","v">>, <<"i","m","a","g","e","/","p","n","g">>,
                      <<"i","m","a","g","e","/","j","p","e","g">>, <<"i","m","a","g","e","/","j","p","g">>}

ConverterDown == ~DOCLING_AVAILABLE \/ converter = "None"

\* C1: while the converter is unavailable, a request dispatched to the PDF or
\* image path is answered 503 with the adapter's own detail (never a 500),
\* and no temporary file is created and convert is not called for it.
C1_Unavailable503 ==
    \A r \in Reqs :
        (main_pc = "serving" /\ ConverterDown /\ req[r].kind \in {"pdf", "image"})
        => /\ req[r].pc \in {"adapter_check", "responded"}
           /\ ~InLog(r, "tmp_create")
           /\ ~InLog(r, "convert")
           /\ req[r].tmp_file = "none"
           /\ fs = {}
           /\ req[r].pc = "responded"
                => /\ req[r].response.status = 503
                   /\ req[r].response.detail =
                        (IF req[r].kind = "pdf" THEN "Docling is not available"
                         ELSE "Image parsing is currently unavailable")

C1_Witness ==
    \E r \in Reqs :
        /\ ConverterDown
        /\ req[r].kind = "pdf"
        /\ req[r].pc = "responded"
        /\ req[r].response.status = 503

\* C2: when an adapter call that created a temporary file has finished, the
\* file no longer exists.
C2_TempFileRemoved ==
    \A r \in Reqs :
        (req[r].pc = "responded" /\ req[r].tmp_file # "none")
        => req[r].tmp_file \notin fs

\* C5: a request is rejected with the size message exactly when its byte
\* length exceeds 10,485,760, and whatever passed the gate is at most that.
C5_SizeLimit ==
    \A r \in Reqs :
        /\ (req[r].pc = "responded" /\ req[r].file_size > 10485760)
             => /\ req[r].response.status = 400
                /\ req[r].response.detail = "File size exceeds 10MB limit"
        /\ req[r].response.detail = "File size exceeds 10MB limit"
             => req[r].file_size > 10485760
        /\ InLog(r, "validated") => req[r].file_size <= 10485760
        /\ (req[r].pc \notin {"idle", "validate"} /\ req[r].file_size <= 10485760)
             => \/ InLog(r, "validated")
                \/ req[r].response.detail
                     = "Only PNG, JPG, CSV, and PDF files are allowed"

C5_Witness ==
    \E r \in Reqs : req[r].file_size = 10485760 /\ req[r].pc = "dispatch"

\* C6: a file within the size limit is rejected for its type exactly when
\* neither its name nor its declared type is supported; either alone passes.
C6_TypeGate ==
    \A r \in Reqs :
        (req[r].pc \notin {"idle", "validate"} /\ req[r].file_size <= 10485760)
        => LET rejected ==
                 /\ req[r].pc = "responded"
                 /\ req[r].log = <<"read">>
                 /\ req[r].response.status = 400
                 /\ req[r].response.detail
                      = "Only PNG, JPG, CSV, and PDF files are allowed"
           IN  /\ rejected <=> (/\ ~NamedLikeSupported(req[r].filename)
                                /\ ~DeclaredSupported(req[r].content_type))
               /\ ~rejected => InLog(r, "validated")

C6_Witness ==
    \E r \in Reqs :
        /\ req[r].filename = <<"r","e","p","o","r","t",".","t","x","t">>
        /\ req[r].content_type = <<"i","m","a","g","e","/","p","n","g">>
        /\ InLog(r, "validated")

\* the branch the priority order CSV, PDF, image selects
ExpectedBranch(fname, ctype) ==
    IF endswith(lower(fname), <<".","c","s","v">>) \/ contains(<<"c","s","v">>, lower(ctype))
    THEN "csv"
    ELSE IF endswith(lower(fname), <<".","p","d","f">>) \/ contains(<<"p","d","f">>, lower(ctype))
    THEN "pdf"
    ELSE "image"

\* C7: a file that passed the gate is handled by the first matching branch in
\* the order CSV, PDF, image, and a successful response names the type of that
\* branch: text/csv, application/pdf, or the declared type (else 'image').
C7_DispatchOrder ==
    \A r \in Reqs :
        (InLog(r, "validated") /\ req[r].pc # "dispatch")
        => LET b == ExpectedBranch(req[r].filename, req[r].content_type)
           IN  /\ req[r].kind = b
               /\ req[r].log[3] = b
               /\ b = "csv" => ~InLog(r, "adapter")
               /\ b # "csv" => ~InLog(r, "csv_format")
               /\ req[r].response.status = 200
                    => req[r].response.fileType =
                         (IF b = "csv" THEN <<"t","e","x","t","/","c","s","v">>
                          ELSE IF b = "pdf" THEN <<"a","p","p","l","i","c","a","t","i","o","n","/","p","d","f">>
                          ELSE IF req[r].content_type = <<>> THEN <<"i","m","a","g","e">>
                          ELSE req[r].content_type)

C7_Witness ==
    \E r \in Reqs :
        /\ req[r].filename = <<"x",".","c","s","v">>
        /\ req[r].content_type = <<"i","m","a","g","e","/","p","n","g">>
        /\ req[r].response.status = 200
        /\ req[r].response.fileType = <<"t","e","x","t","/","c","s","v">>

\* C9 as first stated: a request about to be received can carry a file that
\* passes the gate and falls through dispatch branches 1-3 to the final
\* rejection.
C9_OtherwiseReachable ==
    \A r \in Reqs :
        (main_pc = "serving" /\ req[r].pc = "idle")
        => \E u \in Uploads :
             LET fname == IF u.filename # <<>> THEN u.filename ELSE <<"d","o","c","u","m","e","n","t">>
             IN  /\ GateVerdict(u.content.size, fname, u.content_type) = "ok"
                 /\ DispatchBranch(fname, u.content_type) = "unsupported"

\* C9, amended: the final branch of dispatch is never taken; every request
\* that passed the gate is dispatched to the CSV, PDF or image path and none
\* is answered 'Unsupported file type'.
C9_OtherwiseUnreachable ==
    \A r \in Reqs :
        /\ req[r].response.detail # "Unsupported file type"
        /\ (InLog(r, "validated") /\ req[r].pc # "dispatch")
             => req[r].kind \in {"csv", "pdf", "image"}

C9_Witness ==
    \E r \in Reqs :
        /\ req[r].filename = <<"p",".","J","P","E","G">>
        /\ req[r].content_type = <<"t","e","x","t","/","p","l","a","i","n">>
        /\ req[r].kind = "image"

\* C10: a request the gate rejects has had no work done beyond reading the
\* upload; an oversized file of unsupported type is rejected for its size;
\* and a 200 response follows gate, one dispatch and that path's work in order.
C10_GateFirst ==
    \A r \in Reqs :
        /\ (req[r].response.status = 400 /\ req[r].response.detail \in
                {"File size exceeds 10MB limit",
                 "Only PNG, JPG, CSV, and PDF files are allowed"})
             => /\ req[r].log = <<"read">>
                /\ req[r].tmp_file = "none"
                /\ req[r].markdown = <<>>
                /\ fs = {}
        /\ (/\ req[r].pc = "responded"
            /\ req[r].file_size > 10485760
            /\ ~NamedLikeSupported(req[r].filename)
            /\ ~DeclaredSupported(req[r].content_type))
             => req[r].response.detail = "File size exceeds 10MB limit"
        /\ req[r].response.status = 200
             => \/ req[r].log = <<"read", "validated", "csv", "decode", "csv_format">>
                \/ \E k \in {"pdf", "image"} :
                     req[r].log = <<"read", "validated", k, "adapter", "tmp_create",
                                    "tmp_write", "convert", "extract", "unlink">>

C10_Witness ==
    \E r \in Reqs :
        /\ req[r].pc = "responded"
        /\ req[r].file_size = 10485761
        /\ req[r].filename = <<"r","e","p","o","r","t",".","t","x","t">>
        /\ req[r].content_type = <<"t","e","x","t","/","p","l","a","i","n">>
        /\ req[r].response.detail = "File size exceeds 10MB limit"

(***************************************************************************)
(* Properties of concurrent requests                                       *)
(***************************************************************************)
\* the response of a request handled alone, from its upload, the availability
\* state and what the file system and the converter did for it
AloneResponse(q) ==
    LET fname == IF q.upload.filename # <<>> THEN q.upload.filename
                 ELSE <<"d","o","c","u","m","e","n","t">>
        ctype == q.upload.content_type
        size == q.upload.content.size
        b == ExpectedBranch(fname, ctype)
        ftype == IF b = "csv" THEN <<"t","e","x","t","/","c","s","v">>
                 ELSE IF b = "pdf" THEN <<"a","p","p","l","i","c","a","t","i","o","n","/","p","d","f">>
                 ELSE IF ctype = <<>> THEN <<"i","m","a","g","e">> ELSE ctype
    IN  IF size > 10485760
        THEN HTTPException(400, "File size exceeds 10MB limit")
        ELSE IF ~NamedLikeSupported(fname) /\ ~DeclaredSupported(ctype)
        THEN HTTPException(400, "Only PNG, JPG, CSV, and PDF files are allowed")
        ELSE IF b = "csv"
        THEN IF q.upload.content.utf8
             THEN JSONResponse(parse_csv_to_markdown(q.upload.content.text),
                               fname, ftype, size)
             ELSE HTTPException(500, "Failed to parse document")
        ELSE IF ConverterDown
        THEN HTTPException(503, IF b = "pdf" THEN "Docling is not available"
                                ELSE "Image parsing is currently unavailable")
        ELSE IF q.pending # "none"
        THEN HTTPException(500, IF b = "pdf" THEN "Failed to parse PDF"
                                ELSE "Failed to parse image")
        ELSE JSONResponse(IF q.result.text # <<>> THEN q.result.text
                          ELSE Placeholder(b, fname),
                          fname, ftype, size)

\* a request is between creating its temporary file and removing it
UsesTemp(q) == q.pc \in {"tmp_write", "convert", "extract", "finally"}

C8_Responses ==
    \A r \in Reqs :
        req[r].pc = "responded" => req[r].response = AloneResponse(req[r])

C8_OwnTempFiles ==
    \A r, s \in Reqs :
        (r # s /\ UsesTemp(req[r]) /\ UsesTemp(req[s]))
        => /\ req[r].tmp_file # req[s].tmp_file
           /\ req[r].tmp_file \in fs

C8_Steps ==
    /\ main_pc = "serving"
         => /\ DOCLING_AVAILABLE' = DOCLING_AVAILABLE
            /\ converter' = converter
    /\ \A p \in fs \ fs' :
         \E r \in Reqs :
            /\ req[r].pc = "finally"
            /\ req'[r].pc # "finally"
            /\ req[r].tmp_path = p
            /\ \A s \in Reqs \ {r} : req'[s] = req[s]

\* C8: once the service is serving, no step changes DOCLING_AVAILABLE or
\* converter; every response is the one the request gets when handled alone;
\* and a temporary file is removed only by the cleanup of the request that
\* created it, while the files of requests in flight stay distinct and present.
C8_Independent ==
    /\ [](C8_Responses /\ C8_OwnTempFiles)
    /\ [][C8_Steps]_vars

C8_Witness ==
    \E r, s \in Reqs :
        /\ r # s
        /\ req[r].upload = req[s].upload
        /\ req[r].kind = "pdf"
        /\ req[r].response.status = 500
        /\ req[r].tmp_file \in fs
        /\ req[s].response.status = 200

(***************************************************************************)
(* Properties of the CSV formatter                                         *)
(***************************************************************************)
\* the table rows of a rendered table: its lines after heading, blank line,
\* header row and separator row
DataLines(md) ==
    LET pieces == split(md, "\n")
    IN  SubSeq(pieces, 5, Len(pieces) - 1)

RowText(cells) == <<"|", " ">> \o join(<<" ", "|", " ">>, cells) \o <<" ", "|">>

Pipes(text) == Cardinality({i \in 1..Len(text) : text[i] = "|"})

\* C3: the data rows of the table are, in order, the parsed rows after the
\* header that have as many cells as the header, each written with exactly
\* that many cells; the other rows are left out.
C3_RaggedRowsDropped ==
    /\ (csv_pc = "done" /\ lines # <<>>)
         => LET C == Len(rows[1])
                kept == SelectSeq(Tail(rows), LAMBDA row : Len(row) = C)
                data == DataLines(csv_result)
            IN  /\ Len(data) = Len(kept)
                /\ \A i \in 1..Len(kept) :
                     /\ data[i] = RowText(kept[i])
                     /\ Pipes(data[i]) = C + 1
    /\ parse_csv_to_markdown(SampleCsv)
         = <<"#","#"," ","D","o","c","u","m","e","n","t"," ","D","a","t","a","\n","\n","|"," ","a"," ","|"," ","b"," ","|","\n","|","-","-","-","|","-","-","-","|","\n","|"," ","1"," ","|"," ","2"," ","|","\n","|"," ","6"," ","|"," ","7"," ","|","\n">>

C3_Witness ==
    /\ csv_pc = "done"
    /\ \E i, j \in 2..Len(rows) :
         /\ i < j
         /\ Len(rows[i]) # Len(rows[1])
         /\ Len(rows[j]) = Len(rows[1])
         /\ Len(DataLines(csv_result)) = 1

QuotesBefore(line, i) == Cardinality({j \in 1..(i - 1) : line[j] = "\""})

\* the commas with an even number of quotes before them
CellEnds(line) ==
    {i \in 1..Len(line) : line[i] = "," /\ QuotesBefore(line, i) % 2 = 0}

\* the position of the k-th of them; 0 before the first, Len + 1 after the last
NthEnd(line, k) ==
    IF k = 0 THEN 0
    ELSE IF k > Cardinality(CellEnds(line)) THEN Len(line) + 1
    ELSE CHOOSE i \in CellEnds(line) :
             Cardinality({j \in CellEnds(line) : j < i}) = k - 1

Unquoted(text) == SelectSeq(text, LAMBDA c : c # "\"")

ExpectedCells(line) ==
    [k \in 1..(Cardinality(CellEnds(line)) + 1) |->
        strip(Unquoted(SubSeq(line, NthEnd(line, k - 1) + 1, NthEnd(line, k) - 1)))]

\* C4: the cells of a line are cut exactly at the commas preceded by an even
\* number of quotes, so there is one cell more than such commas, and no cell
\* holds a quote character.
C4_QuoteScanner ==
    csv_pc \in {"rows", "done"}
    => /\ Len(rows) = Len(lines)
       /\ \A i \in 1..Len(lines) :
            /\ Len(rows[i]) = 1 + Cardinality(CellEnds(lines[i]))
            /\ rows[i] = ExpectedCells(lines[i])
            /\ \A k \in 1..Len(rows[i]) :
                 \A j \in 1..Len(rows[i][k]) : rows[i][k][j] # "\""

C4_Witness ==
    /\ csv_pc = "done"
    /\ \E i \in 1..Len(lines) :
         /\ \E a \in 1..Len(lines[i]) :
              lines[i][a] = "," /\ QuotesBefore(lines[i], a) % 2 = 1
         /\ CellEnds(lines[i]) # {}
         /\ Len(rows[i]) = 2

====
